---- MODULE Spec2Model ----
(***************************************************************************)
(* Data shredders of pretix (src/pretix/base/shredder.py): the eligibility *)
(* gate shred_constraints, the redaction primitive shred_log_fields, and   *)
(* the four built-in shredders with generate_files() and shred_data().     *)
(***************************************************************************)
EXTENDS Integers, Sequences, FiniteSets, TLC

VARIABLES event, now, result,
          le, le0, rule, applied, once,
          db, db0, pre, work, call, ran,
          gen, files

vars == <<event, now, result, le, le0, rule, applied, once,
          db, db0, pre, work, call, ran, gen, files>>

gateVars == <<event, now, result>>
maskVars == <<le, le0, rule, applied, once>>
dataVars == <<db, db0, pre, work, call, ran>>
genVars == <<gen, files>>

(***************************************************************************)
(* Values.  Every Python/JSON value is tagged with its type, so that       *)
(* isinstance() and truthiness are computed as Python computes them.       *)
(***************************************************************************)
Str(s) == [t |-> "str", v |-> s]
Bool(b) == [t |-> "bool", v |-> b]
Dict(f) == [t |-> "dict", v |-> f]
List(q) == [t |-> "list", v |-> q]
None == [t |-> "none", v |-> "None"]

\* The redaction marker written by every masking rule.
MASK == Str("█")

\* Python truthiness: bool(x).
Truthy(x) ==
    CASE x.t = "none" -> FALSE
      [] x.t = "bool" -> x.v
      [] x.t = "str" -> x.v # ""
      [] x.t = "dict" -> DOMAIN x.v # {}
      [] x.t = "list" -> x.v # <<>>
      [] x.t = "fields" -> x.v # {}
      [] x.t = "date" -> TRUE

\* isinstance(x, bool)
IsBool(x) == x.t = "bool"

\* Dict item assignment d[k] = x.
DictSet(d, k, x) == [j \in DOMAIN d \cup {k} |-> IF j = k THEN x ELSE d[j]]

(***************************************************************************)
(* Eligibility gate.                                                       *)
(***************************************************************************)
MaxDate == 3
MaxNow == 64
ShredDays == 60

\* A datetime, counted in days; Event.date_to may be None.
Date(d) == [t |-> "date", v |-> d]
Dates == {Date(d) : d \in 0..MaxDate}
Events == [date_from : Dates, date_to : Dates \cup {None}, live : BOOLEAN]

REASON_OVER == "Your event needs to be over for at least 60 days to use this feature."
REASON_OFFLINE == "Your ticket shop needs to be offline to use this feature."

\* Python's `a or b`.
PyOr(a, b) == IF Truthy(a) THEN a ELSE b

shred_constraints_ignores_live(e, t) ==
    IF PyOr(e.date_to, e.date_from).v > t - ShredDays
    THEN Str(REASON_OVER)
    ELSE None

shred_constraints_live_first(e, t) ==
    IF e.live THEN Str(REASON_OFFLINE)
    ELSE IF PyOr(e.date_to, e.date_from).v > t - ShredDays
         THEN Str(REASON_OVER)
         ELSE None

shred_constraints(e, t) ==
    IF PyOr(e.date_to, e.date_from).v > t - ShredDays
    THEN Str(REASON_OVER)
    ELSE IF e.live THEN Str(REASON_OFFLINE)
         ELSE None

(***************************************************************************)
(* Log entries.  LogEntry.data is JSON text; "" is the empty text.         *)
(***************************************************************************)
EmptyText == <<>>
json_dumps(d) == <<"json", d>>
json_loads(text) == text[2]
parsed_data(entry) == json_loads(entry.data)

Has(d, k) == k \in DOMAIN d.v
Get(d, k) == d.v[k]
Put(d, k, x) == Dict(DictSet(d.v, k, x))

\* A list of field names passed as blacklist= or whitelist=.
Fields(S) == [t |-> "fields", v |-> S]

\* logentry.save(update_fields=['data', 'shredded']) after the rewrite.
save_shredded(entry, d) == [entry EXCEPT !.data = json_dumps(d), !.shredded = TRUE]

save_unflagged(entry, d) == [entry EXCEPT !.data = json_dumps(d)]

MaskedByWhitelist(d, whitelist) ==
    Dict([k \in DOMAIN d.v |-> IF k \notin whitelist.v THEN MASK ELSE d.v[k]])

MaskedByBlacklist(d, blacklist) ==
    Dict([k \in DOMAIN d.v |-> IF k \in blacklist.v THEN MASK ELSE d.v[k]])

shred_log_fields_wraps(entry, blacklist, whitelist) ==
    LET d == parsed_data(entry)
        Wrap(x) == IF x = MASK THEN Str("██") ELSE MASK
        m == IF Truthy(whitelist)
             THEN Dict([k \in DOMAIN d.v |->
                          IF k \notin whitelist.v THEN Wrap(d.v[k]) ELSE d.v[k]])
             ELSE IF Truthy(blacklist)
                  THEN Dict([k \in DOMAIN d.v |->
                               IF k \in blacklist.v THEN Wrap(d.v[k]) ELSE d.v[k]])
                  ELSE d
    IN  save_shredded(entry, m)

shred_log_fields(entry, blacklist, whitelist) ==
    LET d == parsed_data(entry)
        m == IF Truthy(whitelist) THEN MaskedByWhitelist(d, whitelist)
             ELSE IF Truthy(blacklist) THEN MaskedByBlacklist(d, blacklist)
                  ELSE d
    IN  save_shredded(entry, m)

AT_EMAIL_SENT == "pretix.event.order.email.sent"
AT_CONTACT_CHANGED == "pretix.event.order.contact.changed"
AT_MODIFIED == "pretix.event.order.modified"
AT_PAID == "pretix.event.order.paid"
ActionTypes == {AT_EMAIL_SENT, AT_CONTACT_CHANGED, AT_MODIFIED, AT_PAID}

\* filter(action_type__contains="order.email"), tabulated over ActionTypes.
ContainsOrderEmail(action_type) == action_type \in {AT_EMAIL_SENT}

\* filter(action_type="pretix.event.order.modified").exclude(data="")
IsModifiedWithData(entry) == entry.action_type = AT_MODIFIED /\ entry.data # EmptyText

EMAILS == "order_emails"
NAMES == "attendee_names"
INVOICES == "invoice_addresses"
ANSWERS == "question_answers"
\* register_data_shredders
Shredders == {EMAILS, NAMES, INVOICES, ANSWERS}

MaskRowField_appends(row, f) ==
    IF Has(row, f) THEN Put(row, f, IF Get(row, f) = MASK THEN Str("██") ELSE MASK) ELSE row

MaskRowField(row, f) == IF Has(row, f) THEN Put(row, f, MASK) ELSE row

\* What each loop over d['data'] does to one row.
MaskRow(kind, row) ==
    CASE kind = "attendee_email" -> MaskRowField(row, "attendee_email")
      [] kind = "attendee_name" -> MaskRowField(row, "attendee_name")
      [] kind = "answers" ->
           Dict([f \in DOMAIN row.v |->
                   IF f \notin {"attendee_name", "attendee_email"} THEN MASK ELSE row.v[f]])
      [] kind = "all" -> Dict([f \in DOMAIN row.v |-> MASK])

\* d with every row of d['data'] masked.
MapRows(d, kind) ==
    LET rows == Get(d, "data").v
    IN  Put(d, "data", List([i \in DOMAIN rows |-> MaskRow(kind, rows[i])]))

MaskInvoiceData(inv) ==
    Dict([f \in DOMAIN inv.v |-> IF Truthy(inv.v[f]) THEN MASK ELSE inv.v[f]])

\* The loop bodies over "order modified" entries, one per shredder.
EmailModifiedBody(entry) ==
    LET d == parsed_data(entry)
    IN  IF Has(d, "data") THEN save_shredded(entry, MapRows(d, "attendee_email")) ELSE entry

NameModifiedBody_clobbers(entry) ==
    LET d == parsed_data(entry)
    IN  IF Has(d, "data") THEN save_shredded(entry, MapRows(d, "all")) ELSE entry

NameModifiedBody(entry) ==
    LET d == parsed_data(entry)
    IN  IF Has(d, "data") THEN save_shredded(entry, MapRows(d, "attendee_name")) ELSE entry

InvoiceModifiedBody(entry) ==
    LET d == parsed_data(entry)
    IN  IF Has(d, "invoice_data") /\ ~IsBool(Get(d, "invoice_data"))
        THEN save_shredded(entry, Put(d, "invoice_data", MaskInvoiceData(Get(d, "invoice_data"))))
        ELSE entry

AnswersModifiedBody_unflagged(entry) ==
    LET d == parsed_data(entry)
    IN  IF Has(d, "data") THEN save_unflagged(entry, MapRows(d, "answers")) ELSE entry

AnswersModifiedBody(entry) ==
    LET d == parsed_data(entry)
    IN  IF Has(d, "data") THEN save_shredded(entry, MapRows(d, "answers")) ELSE entry

\* The log scans of each shred_data(), in the order of the code.
Phases(s) ==
    CASE s = EMAILS -> <<"email", "contact", "modified_email">>
      [] s = NAMES -> <<"modified_name">>
      [] s = INVOICES -> <<"modified_invoice">>
      [] s = ANSWERS -> <<"modified_answers">>

PhaseFilter(p, entry) ==
    CASE p = "email" -> ContainsOrderEmail(entry.action_type)
      [] p = "contact" -> entry.action_type = AT_CONTACT_CHANGED
      [] OTHER -> IsModifiedWithData(entry)

PhaseBody(p, entry) ==
    CASE p = "email" -> shred_log_fields(entry, Fields({"recipient", "message"}), None)
      [] p = "contact" -> shred_log_fields(entry, Fields({"old_email", "new_email"}), None)
      [] p = "modified_email" -> EmailModifiedBody(entry)
      [] p = "modified_name" -> NameModifiedBody(entry)
      [] p = "modified_invoice" -> InvoiceModifiedBody(entry)
      [] p = "modified_answers" -> AnswersModifiedBody(entry)

PhaseApply(p, entry) == IF PhaseFilter(p, entry) THEN PhaseBody(p, entry) ELSE entry

\* All log scans of shredder s applied to one entry.
RECURSIVE ApplyPhases(_, _, _)
ApplyPhases(ps, k, entry) ==
    IF k > Len(ps) THEN entry ELSE ApplyPhases(ps, k + 1, PhaseApply(ps[k], entry))

ShredLogEntry(s, entry) == ApplyPhases(Phases(s), 1, entry)

(***************************************************************************)
(* Records of the event: orders, order positions, invoice addresses and    *)
(* question answers, and the event's log.                                  *)
(***************************************************************************)
\* Order codes are strings of letters and digits, kept as character sequences.
OrderCodes == {<<"A">>, <<"A", "1">>}
PositionIds == {1}
PosKeys == OrderCodes \X PositionIds
Questions == {"q1"}

Digit(n) == <<"0", "1", "2", "3", "4", "5", "6", "7", "8", "9">>[n + 1]
RECURSIVE IntToStr(_)
IntToStr(n) == IF n < 10 THEN <<Digit(n)>> ELSE IntToStr(n \div 10) \o <<Digit(n % 10)>>

\* '{}-{}'.format(op.order.code, op.positionid)
FormatKey(code, positionid) == code \o <<"-">> \o IntToStr(positionid)

\* OrderPosition...filter(attendee_email__isnull=False).update(attendee_email=None)
NullAttendeeEmail(d) ==
    [d EXCEPT !.positions = [k \in DOMAIN @ |-> [@[k] EXCEPT !.attendee_email = None]]]

\* event.orders.filter(email__isnull=False).update(email=None)
NullOrderEmail(d) ==
    [d EXCEPT !.orders = [k \in DOMAIN @ |-> [@[k] EXCEPT !.email = None]]]

\* OrderPosition...filter(attendee_name__isnull=False).update(attendee_name=None)
NullAttendeeName(d) ==
    [d EXCEPT !.positions = [k \in DOMAIN @ |-> [@[k] EXCEPT !.attendee_name = None]]]

\* InvoiceAddress.objects.filter(order__event=self.event).delete()
DeleteInvoiceAddresses(d) == [d EXCEPT !.invoices = [k \in {} |-> None]]

\* QuestionAnswer.objects.filter(orderposition__order__event=self.event).delete()
DeleteAnswers(d) == [d EXCEPT !.answers = [k \in {} |-> None]]

\* The Record statements of each shred_data(), in the order of the code.
RecordSteps_skips_orders(s) ==
    CASE s = EMAILS -> <<"attendee_email", "attendee_email">>
      [] s = NAMES -> <<"attendee_name">>
      [] s = INVOICES -> <<"invoices">>
      [] s = ANSWERS -> <<"answers">>

RecordSteps(s) ==
    CASE s = EMAILS -> <<"attendee_email", "order_email">>
      [] s = NAMES -> <<"attendee_name">>
      [] s = INVOICES -> <<"invoices">>
      [] s = ANSWERS -> <<"answers">>

RecordStep(r, d) ==
    CASE r = "attendee_email" -> NullAttendeeEmail(d)
      [] r = "order_email" -> NullOrderEmail(d)
      [] r = "attendee_name" -> NullAttendeeName(d)
      [] r = "invoices" -> DeleteInvoiceAddresses(d)
      [] r = "answers" -> DeleteAnswers(d)

\* shred_data() as its sequence of writes: the Record statements, then every
\* log scan over the entries of the log in turn.
NSteps(s, d) == Len(RecordSteps(s)) + Len(Phases(s)) * Len(d.log)

ApplyStep(s, k, d) ==
    IF k <= Len(RecordSteps(s))
    THEN RecordStep(RecordSteps(s)[k], d)
    ELSE LET j == k - Len(RecordSteps(s)) - 1
             p == Phases(s)[(j \div Len(d.log)) + 1]
             i == (j % Len(d.log)) + 1
         IN  [d EXCEPT !.log[i] = PhaseApply(p, @)]

RECURSIVE RunSteps(_, _, _)
RunSteps(s, k, d) == IF k > NSteps(s, d) THEN d ELSE RunSteps(s, k + 1, ApplyStep(s, k, d))

\* A whole shred_data() call of shredder s on the state d.
ShredData(s, d) == RunSteps(s, 1, d)

\* What the database holds when control leaves @transaction.atomic: the
\* transaction's writes after a normal return, the prior state after an exception.
transaction_autocommit(committed, working, how) == working

transaction_atomic(committed, working, how) ==
    IF how = "return" THEN working ELSE committed

(***************************************************************************)
(* generate_files()                                                        *)
(***************************************************************************)
\* InvoiceAdddressSerializer(ia).data and AnswerSerializer(answers, many=True).data
InvoiceAdddressSerializer(ia) == Dict([f \in DOMAIN ia |-> Str(ia[f])])

RECURSIVE SetToSeq(_)
SetToSeq(S) == IF S = {} THEN <<>> ELSE LET x == CHOOSE x \in S : TRUE
                                         IN  <<x>> \o SetToSeq(S \ {x})

AnswerSerializer(d, pos) ==
    LET rows == {k \in DOMAIN d.answers : k[1] = pos}
        q == SetToSeq(rows)
    IN  List([i \in DOMAIN q |->
                Dict([f \in {"question", "answer"} |->
                        IF f = "question" THEN Str(q[i][2]) ELSE d.answers[q[i]]])])

\* The files each generate_files() yields, in order.
FileNames(s) ==
    CASE s = EMAILS -> <<"emails-by-order.json", "emails-by-attendee.json">>
      [] s = NAMES -> <<"attendee-names.json">>
      [] s = INVOICES -> <<"invoice-addresses.json">>
      [] s = ANSWERS -> <<"question-answers.json">>

EmailsByOrder(d) ==
    LET S == {o \in DOMAIN d.orders : d.orders[o].email # None}
    IN  Dict([k \in S |-> d.orders[k].email])

EmailsByAttendee_wrong_filter(d) ==
    LET S == {p \in DOMAIN d.positions : d.positions[p].attendee_name # None}
    IN  Dict([k \in {FormatKey(p[1], p[2]) : p \in S} |->
                d.positions[CHOOSE p \in S : FormatKey(p[1], p[2]) = k].attendee_email])

EmailsByAttendee(d) ==
    LET S == {p \in DOMAIN d.positions : d.positions[p].attendee_email # None}
    IN  Dict([k \in {FormatKey(p[1], p[2]) : p \in S} |->
                d.positions[CHOOSE p \in S : FormatKey(p[1], p[2]) = k].attendee_email])

AttendeeNames(d) ==
    LET S == {p \in DOMAIN d.positions : d.positions[p].attendee_name # None}
    IN  Dict([k \in {FormatKey(p[1], p[2]) : p \in S} |->
                d.positions[CHOOSE p \in S : FormatKey(p[1], p[2]) = k].attendee_name])

InvoiceAddresses(d) ==
    Dict([k \in DOMAIN d.invoices |-> InvoiceAdddressSerializer(d.invoices[k])])

QuestionAnswers(d) ==
    LET S == DOMAIN d.positions
    IN  Dict([k \in {FormatKey(p[1], p[2]) : p \in S} |->
                AnswerSerializer(d, CHOOSE p \in S : FormatKey(p[1], p[2]) = k)])

\* json.dumps({...}, indent=4) of one yielded file, evaluated on the state d.
FileContent(name, d) ==
    json_dumps(CASE name = "emails-by-order.json" -> EmailsByOrder(d)
                 [] name = "emails-by-attendee.json" -> EmailsByAttendee(d)
                 [] name = "attendee-names.json" -> AttendeeNames(d)
                 [] name = "invoice-addresses.json" -> InvoiceAddresses(d)
                 [] name = "question-answers.json" -> QuestionAnswers(d))

\* The Record state a yield expression reads: the generator body runs only
\* when the file is pulled, so it reads the database as it is then.
FileSource_eager(g, current) == g.at_call

FileSource(g, current) == current

(***************************************************************************)
(* Domains the initial states are drawn from.                              *)
(***************************************************************************)
MaxRows == 1
MaxLog == 2

Unset == [t |-> "unset", v |-> "unset"]
Absent == [t |-> "absent", v |-> "absent"]

\* Flat payloads, as email and contact-change entries carry them.
FlatKeys == {"recipient", "message", "position"}
FlatPayloads ==
    UNION {{Dict(f) : f \in [K -> {Str("text"), MASK}]} : K \in SUBSET FlatKeys}

\* Payloads of "order modified" entries: an optional list of rows under
\* 'data', an optional 'invoice_data' that is a flag or a mapping.
RowKeys == {"attendee_name", "attendee_email", "question_1"}
RowValue(k) ==
    CASE k = "attendee_name" -> Str("Jane Doe")
      [] k = "attendee_email" -> Str("j@x.com")
      [] k = "question_1" -> Str("vegan")
Row(K) == Dict([k \in K |-> RowValue(k)])
Rows == {Row(K) : K \in SUBSET RowKeys}
DataLists == {List(q) : q \in UNION {[1..m -> Rows] : m \in 0..MaxRows}}
InvoiceData(company, vat_id) ==
    Dict([f \in {"company", "vat_id"} |-> IF f = "company" THEN company ELSE vat_id])
InvoiceOptions ==
    {Bool(TRUE), InvoiceData(Str("Acme"), Str("")), InvoiceData(MASK, Str("DE1")),
     InvoiceData(None, Bool(FALSE))}
MkPayload(data, invoice_data) ==
    LET K == (IF data # Absent THEN {"data"} ELSE {})
               \cup (IF invoice_data # Absent THEN {"invoice_data"} ELSE {})
    IN  Dict([k \in K |-> IF k = "data" THEN data ELSE invoice_data])
ModifiedPayloads ==
    {MkPayload(x, y) : x \in DataLists \cup {Absent}, y \in InvoiceOptions \cup {Absent}}

Entry(action_type, d) ==
    [action_type |-> action_type, data |-> json_dumps(d), shredded |-> FALSE]
EmptyEntry(action_type) ==
    [action_type |-> action_type, data |-> EmptyText, shredded |-> FALSE]

MaskEntries ==
    {Entry(a, d) : a \in ActionTypes, d \in FlatPayloads \cup ModifiedPayloads}
      \cup {EmptyEntry(AT_MODIFIED)}

EmailSentEntry ==
    Entry(AT_EMAIL_SENT,
          Dict([k \in {"recipient", "message", "position"} |->
                  IF k = "position" THEN Str("1") ELSE Str("text")]))
ContactChangedEntry ==
    Entry(AT_CONTACT_CHANGED,
          Dict([k \in {"old_email", "new_email"} |-> Str("j@x.com")]))

TxEntries ==
    {EmailSentEntry, ContactChangedEntry, EmptyEntry(AT_MODIFIED),
     Entry(AT_MODIFIED, MkPayload(List(<<Row(RowKeys)>>), InvoiceData(Str("Acme"), Str("")))),
     Entry(AT_MODIFIED, MkPayload(Absent, Bool(TRUE)))}

SerialEntries ==
    {EmailSentEntry, ContactChangedEntry, EmptyEntry(AT_MODIFIED)}
      \cup {Entry(AT_MODIFIED, MkPayload(x, y)) :
              x \in {Absent, List(<<Row(RowKeys)>>),
                     List(<<Row({"attendee_name", "attendee_email"}), Row({"question_1"})>>)},
              y \in {Absent, Bool(TRUE), InvoiceData(Str("Acme"), Str(""))}}

LogsOver(E) == UNION {[1..n -> E] : n \in 0..MaxLog}

\* Record states: every field either filled or null, every row present or not.
Address == [company |-> "Acme"]
RecordStates ==
    {[orders |-> o, positions |-> p, invoices |-> [k \in I |-> Address],
      answers |-> [k \in A |-> Str("vegan")], log |-> <<>>] :
        o \in [OrderCodes -> [email : {None, Str("o@x.com")}]],
        p \in [PosKeys -> [attendee_name : {None, Str("Jane Doe")},
                           attendee_email : {None, Str("j@x.com")}]],
        I \in SUBSET OrderCodes,
        A \in SUBSET (PosKeys \X Questions)}

FullRecords ==
    [orders |-> [o \in OrderCodes |-> [email |-> Str("o@x.com")]],
     positions |-> [p \in PosKeys |-> [attendee_name |-> Str("Jane Doe"),
                                       attendee_email |-> Str("j@x.com")]],
     invoices |-> [k \in OrderCodes |-> Address],
     answers |-> [k \in PosKeys \X Questions |-> Str("vegan")],
     log |-> <<>>]
BlankRecords ==
    [orders |-> [o \in OrderCodes |-> [email |-> None]],
     positions |-> [p \in PosKeys |-> [attendee_name |-> None, attendee_email |-> None]],
     invoices |-> [k \in {} |-> Address],
     answers |-> [k \in {} |-> None],
     log |-> <<>>]
PartRecords ==
    [FullRecords EXCEPT !.orders[<<"A">>].email = None,
                        !.positions[<<<<"A", "1">>, 1>>].attendee_name = None,
                        !.invoices = [k \in {<<"A">>} |-> Address]]

WithLog(d, l) == [d EXCEPT !.log = l]

NoCall == [s |-> "none", status |-> "none", step |-> 0]

IdleGate ==
    /\ event = [date_from |-> Date(0), date_to |-> None, live |-> FALSE]
    /\ now = 0
    /\ result = Unset
IdleMask ==
    /\ le = EmptyEntry(AT_PAID)
    /\ le0 = EmptyEntry(AT_PAID)
    /\ once = EmptyEntry(AT_PAID)
    /\ rule = [kind |-> "none"]
    /\ applied = 0
IdleData ==
    /\ db = BlankRecords
    /\ db0 = BlankRecords
    /\ pre = BlankRecords
    /\ work = BlankRecords
    /\ call = NoCall
    /\ ran = {}
IdleGen ==
    /\ gen = [s |-> "none", called |-> FALSE, pos |-> 0, at_call |-> BlankRecords]
    /\ files = <<>>

(***************************************************************************)
(* SpecGate: the host evaluates shred_constraints(event) at time now.      *)
(***************************************************************************)
InitGate ==
    /\ event \in Events
    /\ now \in 0..MaxNow
    /\ result = Unset
    /\ IdleMask /\ IdleData /\ IdleGen

Evaluate ==
    /\ result = Unset
    /\ result' = shred_constraints(event, now)
    /\ UNCHANGED <<event, now, maskVars, dataVars, genVars>>

NextGate == Evaluate
SpecGate == InitGate /\ [][NextGate]_vars

(***************************************************************************)
(* SpecMask: one masking rule applied to one log entry, then once more.    *)
(***************************************************************************)
FieldLists == {Fields(S) : S \in SUBSET FlatKeys}
Rules ==
    {[kind |-> "fields", blacklist |-> b, whitelist |-> None] : b \in FieldLists}
      \cup {[kind |-> "fields", blacklist |-> None, whitelist |-> w] : w \in FieldLists}
      \cup {[kind |-> "shredder", s |-> s] : s \in Shredders}

ApplyRule(r, entry) ==
    IF r.kind = "fields" THEN shred_log_fields(entry, r.blacklist, r.whitelist)
    ELSE ShredLogEntry(r.s, entry)

InitMask ==
    /\ le0 \in MaskEntries
    /\ rule \in Rules
    /\ rule.kind = "fields" => le0.data # EmptyText
    /\ le = le0
    /\ once = le0
    /\ applied = 0
    /\ IdleGate /\ IdleData /\ IdleGen

Mask ==
    /\ applied < 2
    /\ le' = ApplyRule(rule, le)
    /\ once' = IF applied = 0 THEN le' ELSE once
    /\ applied' = applied + 1
    /\ UNCHANGED <<le0, rule, gateVars, dataVars, genVars>>

NextMask == Mask
SpecMask == InitMask /\ [][NextMask]_vars

(***************************************************************************)
(* Spec: shred_data() calls, one at a time, each a transaction that runs   *)
(* write by write and either returns or fails with an exception.           *)
(***************************************************************************)
TxRecords == {FullRecords, PartRecords, BlankRecords}

Init ==
    /\ db \in {WithLog(r, l) : r \in TxRecords, l \in LogsOver(TxEntries)}
    /\ db0 = db
    /\ pre = db
    /\ work = db
    /\ call = NoCall
    /\ ran = {}
    /\ IdleGate /\ IdleMask /\ IdleGen

Begin(s) ==
    /\ call.status # "running"
    /\ call' = [s |-> s, status |-> "running", step |-> 0]
    /\ pre' = db
    /\ work' = db
    /\ UNCHANGED <<db, db0, ran, gateVars, maskVars, genVars>>

Write ==
    /\ call.status = "running"
    /\ call.step < NSteps(call.s, work)
    /\ work' = ApplyStep(call.s, call.step + 1, work)
    /\ call' = [call EXCEPT !.step = @ + 1]
    /\ UNCHANGED <<db, db0, pre, ran, gateVars, maskVars, genVars>>

Fail ==
    /\ call.status = "running"
    /\ db' = transaction_atomic(db, work, "exception")
    /\ call' = [call EXCEPT !.status = "aborted"]
    /\ UNCHANGED <<db0, pre, work, ran, gateVars, maskVars, genVars>>

Return ==
    /\ call.status = "running"
    /\ call.step = NSteps(call.s, work)
    /\ db' = transaction_atomic(db, work, "return")
    /\ call' = [call EXCEPT !.status = "committed"]
    /\ ran' = ran \cup {call.s}
    /\ UNCHANGED <<db0, pre, work, gateVars, maskVars, genVars>>

Next == (\E s \in Shredders : Begin(s)) \/ Write \/ Fail \/ Return
Spec == Init /\ [][Next]_vars

(***************************************************************************)
(* SpecSerial: whole shred_data() calls in any order, with repetitions.    *)
(***************************************************************************)
InitSerial ==
    /\ db \in {WithLog(FullRecords, l) : l \in LogsOver(SerialEntries)}
    /\ db0 = db
    /\ pre = db
    /\ work = db
    /\ call = NoCall
    /\ ran = {}
    /\ IdleGate /\ IdleMask /\ IdleGen

Shred(s) ==
    /\ pre' = db
    /\ db' = transaction_atomic(db, ShredData(s, db), "return")
    /\ work' = db'
    /\ call' = [s |-> s, status |-> "committed", step |-> NSteps(s, db)]
    /\ ran' = ran \cup {s}
    /\ UNCHANGED <<db0, gateVars, maskVars, genVars>>

NextSerial == \E s \in Shredders : Shred(s)
SpecSerial == InitSerial /\ [][NextSerial]_vars

(***************************************************************************)
(* SpecExport: one shredder instance; the host calls generate_files(),     *)
(* pulls the files one by one, and may call shred_data() at any point.     *)
(***************************************************************************)
ExportLog == <<Entry(AT_MODIFIED, MkPayload(List(<<Row(RowKeys)>>), Absent))>>

InitExport ==
    /\ db \in {WithLog(r, ExportLog) : r \in RecordStates}
    /\ db0 = db
    /\ pre = db
    /\ work = db
    /\ call = NoCall
    /\ ran = {}
    /\ gen \in {[s |-> s, called |-> FALSE, pos |-> 0, at_call |-> db] : s \in Shredders}
    /\ files = <<>>
    /\ IdleGate /\ IdleMask

GenerateFiles ==
    /\ ~gen.called
    /\ gen' = [gen EXCEPT !.called = TRUE, !.at_call = db]
    /\ UNCHANGED <<files, gateVars, maskVars, dataVars>>

NextFile ==
    /\ gen.called
    /\ gen.pos < Len(FileNames(gen.s))
    /\ LET name == FileNames(gen.s)[gen.pos + 1]
       IN  files' = Append(files, [name |-> name,
                                   content |-> FileContent(name, FileSource(gen, db)),
                                   ran_before |-> ran])
    /\ gen' = [gen EXCEPT !.pos = @ + 1]
    /\ UNCHANGED <<gateVars, maskVars, dataVars>>

\* self.shred_data() of the same instance.
ShredOwn ==
    /\ gen.s \notin ran
    /\ Shred(gen.s)

NextExport == GenerateFiles \/ NextFile \/ ShredOwn
SpecExport == InitExport /\ [][NextExport]_vars

(***************************************************************************)
(* Properties.                                                             *)
(***************************************************************************)
\* The date the gate measures from: date_to when set, date_from otherwise.
EndOf(e) == IF e.date_to # None THEN e.date_to.v ELSE e.date_from.v
LaterOf(e) ==
    IF e.date_to # None /\ e.date_to.v > e.date_from.v THEN e.date_to.v ELSE e.date_from.v

C2_LiveReason ==
    (result # Unset /\ event.live) =>
        /\ now - EndOf(event) < ShredDays => result = Str(REASON_OVER)
        /\ ~(now - EndOf(event) < ShredDays) => result = Str(REASON_OFFLINE)

\* C2 as stated: for a live event the gate returns the 'shop must be
\* offline' reason regardless of the dates.
C2_LiveAlwaysOffline ==
    (result # Unset /\ event.live) => result = Str(REASON_OFFLINE)

C2_Witness ==
    /\ event.live
    /\ now - EndOf(event) < ShredDays
    /\ result = Str(REASON_OVER)

\* The shredders of R applied once each, in one fixed order.
Canon(d, R) ==
    LET a == IF EMAILS \in R THEN ShredData(EMAILS, d) ELSE d
        b == IF NAMES \in R THEN ShredData(NAMES, a) ELSE a
        c == IF INVOICES \in R THEN ShredData(INVOICES, b) ELSE b
    IN  IF ANSWERS \in R THEN ShredData(ANSWERS, c) ELSE c

\* The values shredder s destroys in state d, each with the file and key
\* under which generate_files() exports it.
TargetValues(s, d) ==
    CASE s = EMAILS ->
           {[file |-> "emails-by-order.json", key |-> o, value |-> d.orders[o].email] :
              o \in {o \in DOMAIN d.orders : d.orders[o].email # None}}
           \cup
           {[file |-> "emails-by-attendee.json", key |-> FormatKey(p[1], p[2]),
             value |-> d.positions[p].attendee_email] :
              p \in {p \in DOMAIN d.positions : d.positions[p].attendee_email # None}}
      [] s = NAMES ->
           {[file |-> "attendee-names.json", key |-> FormatKey(p[1], p[2]),
             value |-> d.positions[p].attendee_name] :
              p \in {p \in DOMAIN d.positions : d.positions[p].attendee_name # None}}
      [] s = INVOICES ->
           {[file |-> "invoice-addresses.json", key |-> o,
             value |-> InvoiceAdddressSerializer(d.invoices[o])] : o \in DOMAIN d.invoices}
      [] s = ANSWERS ->
           {[file |-> "question-answers.json", key |-> FormatKey(a[1][1], a[1][2]),
             value |-> d.answers[a]] : a \in DOMAIN d.answers}

\* The exported file f holds the value t under t's key.
Exports(f, t) ==
    /\ f.name = t.file
    /\ LET c == json_loads(f.content)
       IN  /\ Has(c, t.key)
           /\ IF t.file = "question-answers.json"
              THEN \E i \in DOMAIN Get(c, t.key).v : Get(Get(c, t.key).v[i], "answer") = t.value
              ELSE Get(c, t.key) = t.value

\* The Records shredder s targets are null or deleted in state d.
RecordsShredded(s, d) == TargetValues(s, d) = {}

\* The entries a shred_data() of s rewrites: those its shred_log_fields scans
\* match, and the non-empty "order modified" entries holding the key it masks.
Rewritten(s, entry) ==
    CASE s = EMAILS ->
           \/ ContainsOrderEmail(entry.action_type)
           \/ entry.action_type = AT_CONTACT_CHANGED
           \/ (IsModifiedWithData(entry) /\ Has(parsed_data(entry), "data"))
      [] s \in {NAMES, ANSWERS} ->
           IsModifiedWithData(entry) /\ Has(parsed_data(entry), "data")
      [] s = INVOICES ->
           /\ IsModifiedWithData(entry)
           /\ Has(parsed_data(entry), "invoice_data")
           /\ ~IsBool(Get(parsed_data(entry), "invoice_data"))

\* The entries the querysets of s return.
Scanned(s, entry) ==
    \/ IsModifiedWithData(entry)
    \/ (s = EMAILS /\ (ContainsOrderEmail(entry.action_type)
                         \/ entry.action_type = AT_CONTACT_CHANGED))

\* C3: a shred_data() that fails after any number of its writes leaves the
\* persisted Records and Log Entries as they were before the call; persisted
\* state is always the state before the call or the state after all of it.
C3_AllOrNothing ==
    /\ call.status \in {"running", "aborted"} => db = pre
    /\ call.status = "committed" => db = ShredData(call.s, pre)

C3_Witness ==
    /\ call.status = "aborted"
    /\ work.positions # pre.positions
    /\ \E i, j \in DOMAIN pre.log :
          /\ work.log[i] # pre.log[i]
          /\ work.log[j] = pre.log[j]
          /\ ShredData(call.s, pre).log[j] # pre.log[j]

\* C4 (as amended): after a successful shred_data() every targeted Record
\* field is null or its row deleted, and every Log Entry the call rewrote
\* (matched by a shred_log_fields scan, or a non-empty "order modified" entry
\* holding the key the shredder masks) has shredded = true; the other entries
\* are left as they were.
C4_Destroyed ==
    call.status = "committed" =>
        /\ RecordsShredded(call.s, db)
        /\ \A i \in DOMAIN pre.log :
              IF Rewritten(call.s, pre.log[i])
              THEN db.log[i].shredded
              ELSE db.log[i] = pre.log[i]

\* C4 as stated: every entry the shredder scanned has shredded = true.
C4_EveryScannedShredded ==
    call.status = "committed" =>
        /\ RecordsShredded(call.s, db)
        /\ \A i \in DOMAIN pre.log : Scanned(call.s, pre.log[i]) => db.log[i].shredded

C4_Witness ==
    /\ call.status = "committed"
    /\ call.s = ANSWERS
    /\ ~RecordsShredded(ANSWERS, pre)
    /\ \E i, j \in DOMAIN pre.log :
          /\ Rewritten(ANSWERS, pre.log[i]) /\ ~pre.log[i].shredded /\ db.log[i].shredded
          /\ Scanned(ANSWERS, pre.log[j]) /\ ~Rewritten(ANSWERS, pre.log[j])

\* C5: when every file of a shredder's generate_files() is pulled before its
\* shred_data() runs, the export holds, under its key, every value of the
\* event that shred_data() then destroys.
C5_ExportComplete ==
    (/\ gen.called
     /\ gen.pos = Len(FileNames(gen.s))
     /\ \A i \in DOMAIN files : gen.s \notin files[i].ran_before) =>
        \A t \in TargetValues(gen.s, db0) : \E i \in DOMAIN files : Exports(files[i], t)

C5_Witness ==
    /\ gen.called
    /\ gen.pos = Len(FileNames(gen.s))
    /\ \A i \in DOMAIN files : gen.s \notin files[i].ran_before
    /\ call.status = "committed"
    /\ call.s = EMAILS
    /\ gen.s = EMAILS
    /\ Cardinality(TargetValues(EMAILS, db0)) = 4
    /\ TargetValues(EMAILS, db) = {}

Leaves(entry) ==
    IF entry.data = EmptyText THEN {}
    ELSE LET d == parsed_data(entry)
             Of(k) ==
                 LET x == Get(d, k)
                 IN  CASE x.t = "list" ->
                            UNION {{[k |-> k, i |-> i, f |-> f, value |-> Get(x.v[i], f)] :
                                      f \in DOMAIN x.v[i].v} : i \in DOMAIN x.v}
                       [] x.t = "dict" ->
                            {[k |-> k, i |-> 0, f |-> f, value |-> Get(x, f)] : f \in DOMAIN x.v}
                       [] OTHER -> {[k |-> k, i |-> 0, f |-> "", value |-> x]}
         IN  UNION {Of(k) : k \in DOMAIN d.v}

Place(l) == [k |-> l.k, i |-> l.i, f |-> l.f]

\* The fields of an "order modified" payload each shredder owns.
Owns(s, l) ==
    CASE s = NAMES -> l.k = "data" /\ l.f = "attendee_name"
      [] s = EMAILS -> l.k = "data" /\ l.f = "attendee_email"
      [] s = INVOICES -> l.k = "invoice_data" /\ l.f # ""
      [] s = ANSWERS -> l.k = "data" /\ l.f \notin {"attendee_name", "attendee_email"}

\* C6: after any serialized sequence of shred_data() calls the payload of
\* every "order modified" entry is the one the set of shredders that ran
\* determines, whatever their order and repetitions, and a field one call left
\* masked is still masked, unchanged, after the next call.
C6_OrderIndependent ==
    \A i \in DOMAIN db.log :
        db.log[i].action_type = AT_MODIFIED =>
            /\ db.log[i] = Canon(db0, ran).log[i]
            /\ \A l \in Leaves(pre.log[i]) : l.value = MASK => l \in Leaves(db.log[i])

C6_Witness ==
    /\ ran = Shredders
    /\ call.s = EMAILS
    /\ \E i \in DOMAIN db.log :
          /\ db.log[i].action_type = AT_MODIFIED
          /\ db.log[i] # pre.log[i]
          /\ \E l \in Leaves(pre.log[i]) : l.value = MASK /\ l.f = "question_1"
          /\ \E l \in Leaves(pre.log[i]) : l.value = MASK /\ l.k = "invoice_data"

\* C7: in an "order modified" entry a shred_data() call changes only the
\* fields its shredder owns: every other field keeps its value, and no field
\* is added or removed.
C7_FieldIsolation ==
    call.status = "committed" =>
        \A i \in DOMAIN pre.log :
            pre.log[i].action_type = AT_MODIFIED =>
                /\ {Place(l) : l \in Leaves(db.log[i])} = {Place(l) : l \in Leaves(pre.log[i])}
                /\ \A l \in Leaves(pre.log[i]) :
                      ~Owns(call.s, l) => l \in Leaves(db.log[i])

C7_Witness ==
    /\ call.status = "committed"
    /\ call.s = NAMES
    /\ \E i \in DOMAIN pre.log :
          /\ pre.log[i].action_type = AT_MODIFIED
          /\ db.log[i] # pre.log[i]
          /\ \E l \in Leaves(db.log[i]) : l.f = "attendee_email" /\ l.value = Str("j@x.com")
          /\ \E l \in Leaves(db.log[i]) : l.f = "question_1" /\ l.value = Str("vegan")
          /\ \E l \in Leaves(db.log[i]) : l.f = "company" /\ l.value = Str("Acme")

\* C8: applying a masking rule a second time leaves the payload and the
\* shredded flag as the first application left them.
C8_Idempotent == applied = 2 => le = once

C8_Witness ==
    /\ applied = 2
    /\ rule.kind = "shredder"
    /\ rule.s = INVOICES
    /\ once # le0
    /\ \E l \in Leaves(once) : l.k = "invoice_data" /\ l.value = Str("")

\* C9 as stated: with a blacklist B every field of B present in the payload
\* is the marker, no field is added and the others are unchanged; with a
\* whitelist W, the empty one included, every top-level field outside W is the
\* marker and those in W are unchanged; the entry is saved shredded.
C9_BlacklistWhitelist ==
    (applied >= 1 /\ rule.kind = "fields") =>
        LET p == parsed_data(le0)
            q == parsed_data(once)
        IN  /\ once.shredded
            /\ DOMAIN q.v = DOMAIN p.v
            /\ rule.blacklist # None =>
                  \A k \in DOMAIN p.v :
                      Get(q, k) = IF k \in rule.blacklist.v THEN MASK ELSE Get(p, k)
            /\ rule.whitelist # None =>
                  \A k \in DOMAIN p.v :
                      Get(q, k) = IF k \notin rule.whitelist.v THEN MASK ELSE Get(p, k)

\* The same with the empty whitelist left out: the part of C9 the code meets.
C9_ExceptEmptyWhitelist ==
    (rule.kind = "fields" /\ rule.whitelist # Fields({})) => C9_BlacklistWhitelist

====
